---- MODULE Spec2Model ----
(***************************************************************************)
(* PlanCollector / PlanCollectorSub of ari_sxn_common/common_bluesky.py.   *)
(*                                                                         *)
(* A Python str is a sequence of one-character strings, so startswith,     *)
(* split, strip and replace are computed and not assumed.  An instance     *)
(* __dict__ is a sequence of [key, val] records in insertion order (the    *)
(* order Python keeps and that __str__ and __dir__ iterate in).            *)
(***************************************************************************)
EXTENDS Integers, Sequences, FiniteSets, TLC

(***************************************************************************)
(* Bounds of the model.                                                    *)
(***************************************************************************)
\* how many times PlanCollector(...) is called in one run
MaxObjects == 2
\* how many entries the plan-stub table and the plan table hold together
MaxEntries == 2

(***************************************************************************)
(* str methods.                                                            *)
(***************************************************************************)
\* str.startswith(prefix)
StartsWith(s, prefix) ==
    Len(s) >= Len(prefix) /\ SubSeq(s, 1, Len(prefix)) = prefix

\* str.find(sub, start), 1-based: the least place at or after start where
\* sub occurs, 0 when there is none
Find(s, sub, start) ==
    LET found == {at \in start..(Len(s) - Len(sub) + 1) :
                     \A j \in 1..Len(sub) : s[at + j - 1] = sub[j]}
    IN  IF found = {} THEN 0
        ELSE CHOOSE at \in found : \A other \in found : at <= other

\* str.split(sep, 1): one element when sep does not occur, else two
SplitOnce(s, sep) ==
    LET at == Find(s, sep, 1)
    IN  IF at = 0 THEN <<s>>
        ELSE <<SubSeq(s, 1, at - 1), SubSeq(s, at + Len(sep), Len(s))>>

RECURSIVE Split(_, _)
\* str.split(sep)
Split(s, sep) ==
    LET at == Find(s, sep, 1)
    IN  IF at = 0 THEN <<s>>
        ELSE <<SubSeq(s, 1, at - 1)>>
             \o Split(SubSeq(s, at + Len(sep), Len(s)), sep)

RECURSIVE Replace(_, _, _)
\* str.replace(old, new) for a non-empty old: left to right, not overlapping,
\* the inserted text is not scanned again
Replace(s, old, new) ==
    LET at == Find(s, old, 1)
    IN  IF at = 0 THEN s
        ELSE SubSeq(s, 1, at - 1) \o new
             \o Replace(SubSeq(s, at + Len(old), Len(s)), old, new)

\* the characters str.strip() removes
Whitespace == {" ", "\t", "\n", "\r", "\f"}

RECURSIVE LStrip(_)
LStrip(s) ==
    IF s # <<>> /\ Head(s) \in Whitespace THEN LStrip(Tail(s)) ELSE s

RECURSIVE RStrip(_)
RStrip(s) ==
    IF s # <<>> /\ s[Len(s)] \in Whitespace
    THEN RStrip(SubSeq(s, 1, Len(s) - 1)) ELSE s

\* str.strip()
Strip(s) == LStrip(RStrip(s))

(***************************************************************************)
(* The string literals of the source.                                      *)
(***************************************************************************)
\* 'rel_'
str_rel_ == <<"r","e","l","_">>
\* 'mvr'
str_mvr == <<"m","v","r">>
\* '_'
str_underscore == <<"_">>
\* 'name'
str_name == <<"n","a","m","e">>
\* 'parent'
str_parent == <<"p","a","r","e","n","t">>
\* 'relative'
str_relative == <<"r","e","l","a","t","i","v","e">>
\* '\n'
str_newline == <<"\n">>
\* '\n    '
str_newline_indent == <<"\n"," "," "," "," ">>
\* ':'
str_colon == <<":">>
\* ':    '
str_colon_gap == <<":"," "," "," "," ">>

(***************************************************************************)
(* The shipped tables, in dict order.                                      *)
(***************************************************************************)
Entry(plan, aliases) == [plan |-> plan, aliases |-> aliases]

_plan_stubs_to_import ==
    << Entry(<<"m","v">>, <<<<"m","o","v","e">>, <<"m","v">>>>),
       Entry(<<"m","v","r">>, <<<<"r","e","l","a","t","i","v","e","_","m","o","v","e">>, <<"m","v">>>>) >>

_plans_to_import ==
    << Entry(<<"c","o","u","n","t">>, <<<<"c","o","u","n","t">>>>),
       Entry(<<"s","c","a","n">>, <<<<"s","c","a","n">>>>),
       Entry(<<"r","e","l","_","s","c","a","n">>, <<<<"r","e","l","a","t","i","v","e","_","s","c","a","n">>, <<"r","e","l","_","s","c","a","n">>>>),
       Entry(<<"g","r","i","d","_","s","c","a","n">>, <<<<"g","r","i","d","_","s","c","a","n">>>>),
       Entry(<<"r","e","l","_","g","r","i","d","_","s","c","a","n">>, <<<<"r","e","l","a","t","i","v","e","_","g","r","i","d","_","s","c","a","n">>, <<"r","e","l","_","g","r","i","d","_","s","c","a","n">>>>),
       Entry(<<"l","i","s","t","_","s","c","a","n">>, <<<<"l","i","s","t","_","s","c","a","n">>>>),
       Entry(<<"r","e","l","_","l","i","s","t","_","s","c","a","n">>, <<<<"r","e","l","a","t","i","v","e","_","l","i","s","t","_","s","c","a","n">>, <<"r","e","l","_","l","i","s","t","_","s","c","a","n">>>>),
       Entry(<<"l","i","s","t","_","g","r","i","d","_","s","c","a","n">>, <<<<"l","i","s","t","_","g","r","i","d","_","s","c","a","n">>>>),
       Entry(<<"r","e","l","_","l","i","s","t","_","g","r","i","d","_","s","c","a","n">>,
             <<<<"r","e","l","a","t","i","v","e","_","l","i","s","t","_","g","r","i","d","_","s","c","a","n">>, <<"r","e","l","_","l","i","s","t","_","g","r","i","d","_","s","c","a","n">>>>),
       Entry(<<"l","o","g","_","s","c","a","n">>, <<<<"l","o","g","_","s","c","a","n">>>>),
       Entry(<<"r","e","l","_","l","o","g","_","s","c","a","n">>, <<<<"r","e","l","a","t","i","v","e","_","l","o","g","_","s","c","a","n">>, <<"r","e","l","_","l","o","g","_","s","c","a","n">>>>),
       Entry(<<"s","p","i","r","a","l">>, <<<<"s","p","i","r","a","l">>>>),
       Entry(<<"r","e","l","_","s","p","i","r","a","l">>, <<<<"r","e","l","a","t","i","v","e","_","s","p","i","r","a","l">>, <<"r","e","l","_","s","p","i","r","a","l">>>>),
       Entry(<<"s","p","i","r","a","l","_","f","e","r","m","a","t">>, <<<<"s","p","i","r","a","l","_","f","e","r","m","a","t">>>>),
       Entry(<<"r","e","l","_","s","p","i","r","a","l","_","f","e","r","m","a","t">>,
             <<<<"r","e","l","a","t","i","v","e","_","s","p","i","r","a","l","_","f","e","r","m","a","t">>, <<"r","e","l","_","s","p","i","r","a","l","_","f","e","r","m","a","t">>>>),
       Entry(<<"s","p","i","r","a","l","_","s","q","u","a","r","e">>, <<<<"s","p","i","r","a","l","_","s","q","u","a","r","e">>>>),
       Entry(<<"r","e","l","_","s","p","i","r","a","l","_","s","q","u","a","r","e">>,
             <<<<"r","e","l","a","t","i","v","e","_","s","p","i","r","a","l","_","s","q","u","a","r","e">>, <<"r","e","l","_","s","p","i","r","a","l","_","s","q","u","a","r","e">>>>) >>

(***************************************************************************)
(* Values an attribute can hold: a str, a function of one of the two       *)
(* source modules (identified by module and name: two values are the same  *)
(* function object exactly when they are equal), or an instance (by its    *)
(* place in the heap).                                                     *)
(***************************************************************************)
StrV(s) == [t |-> "str", s |-> s, mod |-> "", id |-> 0]
FuncV(mod, name) == [t |-> "func", s |-> name, mod |-> mod, id |-> 0]
ObjV(id) == [t |-> "obj", s |-> <<>>, mod |-> "", id |-> id]

(***************************************************************************)
(* An instance __dict__.                                                   *)
(***************************************************************************)
DictHas(d, key) == \E j \in 1..Len(d) : d[j].key = key

DictGet(d, key) == d[CHOOSE j \in 1..Len(d) : d[j].key = key].val

\* a write that leaves a name already present alone (dict.setdefault)
DictSetFirstWins(d, key, val) ==
    IF DictHas(d, key) THEN d ELSE Append(d, [key |-> key, val |-> val])

\* d[key] = val, setattr(obj, key, val): a present key keeps its place and
\* takes the new value, a new key goes last
DictSet(d, key, val) ==
    IF DictHas(d, key)
    THEN [j \in 1..Len(d) |->
            IF d[j].key = key THEN [key |-> key, val |-> val] ELSE d[j]]
    ELSE Append(d, [key |-> key, val |-> val])

\* d.keys(), in order
DictKeys(d) == [j \in 1..Len(d) |-> d[j].key]

VARIABLES
    plans_to_import,           \* argument: the plan table, in dict order
    plan_stubs_to_import,      \* argument: the plan-stub table, in dict order
    plans,                     \* module bluesky.plans: name -> [doc, attrs]
    plan_stubs,                \* module bluesky.plan_stubs
    heap,                      \* the instances: [cls, dict]
    calls,                     \* one record per PlanCollector(...) call
    pc,                        \* where the running __init__ is
    self,                      \* the instance the running __init__ builds
    relative_plans_to_import,  \* its local dict of relative plans
    i,                         \* its place in the table it iterates
    ret                        \* what the last __str__/__dir__ call returned

vars == <<plans_to_import, plan_stubs_to_import, plans, plan_stubs, heap,
          calls, pc, self, relative_plans_to_import, i, ret>>

inputs == <<plans_to_import, plan_stubs_to_import, plans, plan_stubs>>

\* the module a function value came from
ModuleOf(f) == IF f.mod = "plans" THEN plans ELSE plan_stubs

(***************************************************************************)
(* PlanCollector.__init__                                                  *)
(***************************************************************************)
\* the test of line 212 applied to a plan stub: 'mvr' is not relative
StubIsRelativeRelOnly(plan_stub) == StartsWith(plan_stub, str_rel_)

\* line 203
StubIsRelative(plan_stub) ==
    StartsWith(plan_stub, str_rel_) \/ plan_stub = str_mvr

\* line 212
PlanIsRelative(plan) == StartsWith(plan, str_rel_)

Raises(kind) == [err |-> kind, key |-> <<>>, val |-> StrV(<<>>)]
Binds(key, val) == [err |-> "none", key |-> key, val |-> val]

\* lines 204-206 keeping the whole first alias as the name
RelativeBodyUnstripped(mod, module, entry) ==
    IF Len(entry.aliases) = 0 THEN Raises("IndexError")
    ELSE IF Len(SplitOnce(entry.aliases[1], str_underscore)) < 2
         THEN Raises("IndexError")
    ELSE IF entry.plan \notin DOMAIN module THEN Raises("AttributeError")
    ELSE Binds(entry.aliases[1], FuncV(mod, entry.plan))

\* lines 204-206 and 213-214, in evaluation order: aliases[0], the split and
\* its [1], then getattr
RelativeBody(mod, module, entry) ==
    IF Len(entry.aliases) = 0 THEN Raises("IndexError")
    ELSE LET parts == SplitOnce(entry.aliases[1], str_underscore)
         IN  IF Len(parts) < 2 THEN Raises("IndexError")
             ELSE IF entry.plan \notin DOMAIN module
                  THEN Raises("AttributeError")
                  ELSE Binds(parts[2], FuncV(mod, entry.plan))

\* lines 208 and 216 with aliases[-1] for aliases[0]
DirectBodyLastAlias(mod, module, entry) ==
    IF Len(entry.aliases) = 0 THEN Raises("IndexError")
    ELSE IF entry.plan \notin DOMAIN module THEN Raises("AttributeError")
    ELSE Binds(entry.aliases[Len(entry.aliases)], FuncV(mod, entry.plan))

\* lines 208 and 216, in evaluation order: aliases[0], then getattr
DirectBody(mod, module, entry) ==
    IF Len(entry.aliases) = 0 THEN Raises("IndexError")
    ELSE IF entry.plan \notin DOMAIN module THEN Raises("AttributeError")
    ELSE Binds(entry.aliases[1], FuncV(mod, entry.plan))

SetStatus(status, phase, index) ==
    [calls EXCEPT ![Len(calls)] =
        [@ EXCEPT !.status = status, !.phase = phase, !.index = index]]

\* the exception leaves __init__ and nothing catches it: the caller gets no
\* object and the run ends
Propagate(kind, phase) ==
    /\ calls' = SetStatus(kind, phase, i)
    /\ pc' = "raised"
    /\ UNCHANGED <<heap, self, relative_plans_to_import, i>>

\* one pass of either loop body; the else branch writes the instance
LoopBody(is_relative, mod, module, entry, phase) ==
    LET r == IF is_relative THEN RelativeBody(mod, module, entry)
             ELSE DirectBody(mod, module, entry)
    IN  IF r.err # "none" THEN Propagate(r.err, phase)
        ELSE /\ IF is_relative
                THEN /\ relative_plans_to_import' =
                            DictSet(relative_plans_to_import, r.key, r.val)
                     /\ UNCHANGED heap
                ELSE /\ heap' = [heap EXCEPT ![self].dict =
                                    DictSet(@, r.key, r.val)]
                     /\ UNCHANGED relative_plans_to_import
             /\ i' = i + 1
             /\ UNCHANGED <<calls, pc, self>>

\* nothing has been returned yet
NoCall == [obj |-> 0, method |-> "", result |-> [err |-> "none", out |-> <<>>]]

\* the call PlanCollector(plans_to_import, plan_stubs_to_import, name):
\* a new instance, then lines 197-199
Call(name) ==
    /\ pc = "idle"
    /\ Len(calls) < MaxObjects
    /\ heap' = Append(heap, [cls |-> "PlanCollector",
                             dict |-> <<[key |-> str_name, val |-> StrV(name)]>>])
    /\ self' = Len(heap) + 1
    /\ calls' = Append(calls, [self |-> Len(heap) + 1, name |-> name,
                               status |-> "running", phase |-> "", index |-> 0])
    /\ relative_plans_to_import' = <<>>
    /\ i' = 1
    /\ pc' = "plan_stubs"
    \* what an earlier read returned is not looked at again
    /\ ret' = NoCall
    /\ UNCHANGED inputs

\* lines 202-208: one plan stub
StubStep ==
    /\ pc = "plan_stubs"
    /\ i <= Len(plan_stubs_to_import)
    /\ LoopBody(StubIsRelative(plan_stubs_to_import[i].plan), "plan_stubs",
                plan_stubs, plan_stubs_to_import[i], "plan_stubs")
    /\ UNCHANGED <<inputs, ret>>

\* line 202: the plan-stub table is exhausted
StubsDone ==
    /\ pc = "plan_stubs"
    /\ i > Len(plan_stubs_to_import)
    /\ pc' = "plans"
    /\ i' = 1
    /\ UNCHANGED <<inputs, heap, calls, self, relative_plans_to_import, ret>>

\* lines 211-216: one plan
PlanStep ==
    /\ pc = "plans"
    /\ i <= Len(plans_to_import)
    /\ LoopBody(PlanIsRelative(plans_to_import[i].plan), "plans",
                plans, plans_to_import[i], "plans")
    /\ UNCHANGED <<inputs, ret>>

\* line 211: the plan table is exhausted
PlansDone ==
    /\ pc = "plans"
    /\ i > Len(plans_to_import)
    /\ pc' = "relative"
    /\ UNCHANGED <<inputs, heap, calls, self, relative_plans_to_import, i, ret>>

(***************************************************************************)
(* PlanCollectorSub.__init__ and the end of PlanCollector.__init__         *)
(***************************************************************************)
\* repr of a function, which is also its str: '<function NAME at 0x...>'.
\* The address is fixed for the life of the function object; the module's
\* name stands for it.
FuncRepr(f) ==
    <<"<","f","u","n","c","t","i","o","n"," ">> \o f.s \o <<" ","a","t"," ","0","x">>
        \o (IF f.mod = "plans" THEN <<"p","l","a","n","s">> ELSE <<"p","l","a","n","_","s","t","u","b","s">>) \o <<">">>

\* how an f-string field renders a str or a function
Format(v) == IF v.t = "str" THEN v.s ELSE FuncRepr(v)

RECURSIVE SetAll(_, _)
\* lines 66-67: setattr for every item, in dict order
SetAll(d, items) ==
    IF items = <<>> THEN d
    ELSE SetAll(DictSet(d, Head(items).key, Head(items).val), Tail(items))

\* lines 65-70: the __dict__ PlanCollectorSub.__init__ leaves
PlanCollectorSub_init(methods_to_import, name, parent) ==
    LET methods == SetAll(<<>>, methods_to_import)
        named == DictSet(methods, str_name,
                         StrV(Format(DictGet(heap[parent].dict, str_name))
                              \o str_underscore \o name))
    IN  DictSet(named, str_parent, ObjV(parent))

\* the instances a caller holds: what PlanCollector(...) returned, and the
\* `relative` of each
Returned == {k \in 1..Len(calls) : calls[k].status = "returned"}
ChildOf(p) == DictGet(heap[p].dict, str_relative).id
Reachable ==
    {calls[k].self : k \in Returned} \cup {ChildOf(calls[k].self) : k \in Returned}

\* lines 219-220 handing every parent the child of the first construction
RelativeShared ==
    /\ pc = "relative"
    /\ heap' = Append([heap EXCEPT ![self].dict =
                          DictSet(@, str_relative,
                                  IF Returned # {}
                                  THEN ObjV(ChildOf(calls[1].self))
                                  ELSE ObjV(Len(heap) + 1))],
                      [cls |-> "PlanCollectorSub",
                       dict |-> PlanCollectorSub_init(
                                    relative_plans_to_import, str_relative,
                                    self)])
    /\ calls' = SetStatus("returned", "", 0)
    /\ pc' = "idle"
    /\ UNCHANGED <<inputs, self, relative_plans_to_import, i, ret>>

\* lines 219-220 and the return: the child is built, bound as self.relative,
\* and the caller gets the instance
Relative ==
    /\ pc = "relative"
    /\ heap' = Append([heap EXCEPT ![self].dict =
                          DictSet(@, str_relative, ObjV(Len(heap) + 1))],
                      [cls |-> "PlanCollectorSub",
                       dict |-> PlanCollectorSub_init(
                                    relative_plans_to_import, str_relative,
                                    self)])
    /\ calls' = SetStatus("returned", "", 0)
    /\ pc' = "idle"
    /\ UNCHANGED <<inputs, self, relative_plans_to_import, i, ret>>

(***************************************************************************)
(* __str__ and __dir__                                                     *)
(***************************************************************************)
Ok(out) == [err |-> "none", out |-> out]
Err(kind) == [err |-> kind, out |-> <<>>]

\* plan.__doc__ of a bound function
DocOf(f) == ModuleOf(f)[f.s].doc

\* lines 87-89 and 242-244
Description(doc) ==
    IF doc.none THEN Err("AttributeError")
    ELSE LET lines == Split(doc.text, str_newline)
         IN  IF lines[1] # <<>> THEN Ok(Strip(lines[1]))
             ELSE IF Len(lines) < 2 THEN Err("IndexError")
             ELSE Ok(Strip(lines[2]))

RECURSIVE SubStrItems(_, _)
\* lines 85-91
SubStrItems(items, output) ==
    IF items = <<>> THEN Ok(output)
    ELSE IF Head(items).key \in {str_name, str_parent}
         THEN SubStrItems(Tail(items), output)
         ELSE LET description == Description(DocOf(Head(items).val))
              IN  IF description.err # "none" THEN description
                  ELSE SubStrItems(Tail(items),
                                   output \o str_newline_indent
                                   \o Head(items).key \o str_colon_gap
                                   \o description.out)

\* lines 84-93: PlanCollectorSub.__str__
PlanCollectorSub_str(o) ==
    SubStrItems(heap[o].dict,
                str_newline \o Format(DictGet(heap[o].dict, str_name))
                \o str_colon)

\* line 237, plan.__dict__: of a function its attributes, of an instance
\* its __dict__
HasAttributes(v) ==
    IF v.t = "obj" THEN heap[v.id].dict # <<>> ELSE ModuleOf(v)[v.s].attrs

\* line 238, plan.__str__()
ValueStr(v) ==
    IF v.t = "obj" THEN PlanCollectorSub_str(v.id) ELSE Ok(FuncRepr(v))

RECURSIVE StrItems(_, _, _)
\* lines 235-246
StrItems(items, output, self_name) ==
    IF items = <<>> THEN Ok(output)
    ELSE IF Head(items).key \in {str_name, str_parent}
         THEN StrItems(Tail(items), output, self_name)
    ELSE IF HasAttributes(Head(items).val)
         THEN LET sub == ValueStr(Head(items).val)
              IN  IF sub.err # "none" THEN sub
                  ELSE StrItems(Tail(items),
                                output \o str_newline_indent
                                \o Replace(Replace(sub.out, str_newline,
                                                   str_newline_indent),
                                           self_name \o str_underscore, <<>>),
                                self_name)
    ELSE LET description == Description(DocOf(Head(items).val))
         IN  IF description.err # "none" THEN description
             ELSE StrItems(Tail(items),
                           output \o str_newline_indent \o Head(items).key
                           \o str_colon_gap \o description.out,
                           self_name)

\* lines 234-248: PlanCollector.__str__
PlanCollector_str(o) ==
    LET self_name == Format(DictGet(heap[o].dict, str_name))
    IN  StrItems(heap[o].dict, str_newline \o self_name \o str_colon,
                 self_name)

\* lines 108-111 with the filter of line 264
PlanCollectorSub_dirNameOnly(o) ==
    SelectSeq(DictKeys(heap[o].dict), LAMBDA plan : plan \notin {str_name})

\* lines 108-111: PlanCollectorSub.__dir__
PlanCollectorSub_dir(o) ==
    SelectSeq(DictKeys(heap[o].dict),
              LAMBDA plan : plan \notin {str_name, str_parent})

\* lines 263-266: PlanCollector.__dir__
PlanCollector_dir(o) ==
    SelectSeq(DictKeys(heap[o].dict), LAMBDA plan : plan \notin {str_name})

\* str(o) / print(o)
StrCall(o) ==
    /\ pc = "idle"
    /\ o \in Reachable
    /\ ret' = [obj |-> o, method |-> "__str__",
               result |-> IF heap[o].cls = "PlanCollector"
                          THEN PlanCollector_str(o)
                          ELSE PlanCollectorSub_str(o)]
    /\ UNCHANGED <<inputs, heap, calls, pc, self, relative_plans_to_import, i>>

\* dir(o) implemented with self.__dict__.pop('name')
DirCallPops(o) ==
    /\ pc = "idle"
    /\ o \in Reachable
    /\ ret' = [obj |-> o, method |-> "__dir__",
               result |-> Ok(IF heap[o].cls = "PlanCollector"
                             THEN PlanCollector_dir(o)
                             ELSE PlanCollectorSub_dir(o))]
    /\ heap' = [heap EXCEPT ![o].dict =
                   SelectSeq(@, LAMBDA it : it.key # str_name)]
    /\ UNCHANGED <<inputs, calls, pc, self, relative_plans_to_import, i>>

\* dir(o), tab completion
DirCall(o) ==
    /\ pc = "idle"
    /\ o \in Reachable
    /\ ret' = [obj |-> o, method |-> "__dir__",
               result |-> Ok(IF heap[o].cls = "PlanCollector"
                             THEN PlanCollector_dir(o)
                             ELSE PlanCollectorSub_dir(o))]
    /\ UNCHANGED <<inputs, heap, calls, pc, self, relative_plans_to_import, i>>

(***************************************************************************)
(* Inputs.                                                                 *)
(***************************************************************************)
\* the name argument
Names == {<<"p","l","a","n">>, <<"p">>}

\* a docstring in the layout of the bluesky plans: an empty first line, the
\* summary on the second
SummaryOnSecondLine(name) ==
    [none |-> FALSE, text |-> <<"\n"," "," "," "," ","R","u","n"," ">> \o name \o <<".","\n">>]

\* a module that has the functions `names`, plainly documented
PlainModule(names) ==
    [n \in names |-> [doc |-> SummaryOnSecondLine(n), attrs |-> FALSE]]

\* tables are dicts: the keys are distinct
DistinctKeys(t) ==
    \A a, b \in 1..Len(t) : a # b => t[a].plan # t[b].plan

TablesOver(entries, n) ==
    {t \in UNION {[1..k -> entries] : k \in 0..n} : DistinctKeys(t)}

\* plan-stub entries: plain, relative by 'mvr', relative by 'rel_', a relative
\* one whose stripped alias is 'name', a relative one whose first alias has
\* no underscore, one that plan_stubs does not have
StubEntries ==
    { Entry(<<"m","v">>, <<<<"m","o","v","e">>, <<"m","v">>>>),
      Entry(<<"m","v","r">>, <<<<"r","e","l","a","t","i","v","e","_","m","o","v","e">>, <<"m","v">>>>),
      Entry(<<"r","e","l","_","s","e","t">>, <<<<"r","e","l","a","t","i","v","e","_","n","a","m","e">>>>),
      Entry(<<"m","v","r">>, <<<<"j","o","g">>>>),
      Entry(<<"n","o","s","u","c","h">>, <<<<"n","o","s","u","c","h">>>>) }

\* plan entries: plain, relative, one named like the stub's 'move', a relative
\* one named like the stub's 'relative_move', one named 'relative', one named
\* 'name', one that plans does not have
PlanEntries ==
    { Entry(<<"c","o","u","n","t">>, <<<<"c","o","u","n","t">>>>),
      Entry(<<"r","e","l","_","s","c","a","n">>, <<<<"r","e","l","a","t","i","v","e","_","s","c","a","n">>, <<"r","e","l","_","s","c","a","n">>>>),
      Entry(<<"s","c","a","n">>, <<<<"m","o","v","e">>, <<"s","c","a","n">>>>),
      Entry(<<"r","e","l","_","s","p","i","r","a","l">>, <<<<"r","e","l","a","t","i","v","e","_","m","o","v","e">>>>),
      Entry(<<"s","p","i","r","a","l">>, <<<<"r","e","l","a","t","i","v","e">>>>),
      Entry(<<"g","r","i","d","_","s","c","a","n">>, <<<<"n","a","m","e">>>>),
      Entry(<<"r","e","l","_","n","o","s","u","c","h">>, <<<<"r","e","l","a","t","i","v","e","_","n","o","s","u","c","h">>>>) }

StubNames == {<<"m","v">>, <<"m","v","r">>, <<"r","e","l","_","s","e","t">>}
PlanNames == {<<"c","o","u","n","t">>, <<"s","c","a","n">>, <<"r","e","l","_","s","c","a","n">>, <<"s","p","i","r","a","l">>, <<"r","e","l","_","s","p","i","r","a","l">>,
              <<"g","r","i","d","_","s","c","a","n">>}

Start ==
    /\ heap = <<>>
    /\ calls = <<>>
    /\ pc = "idle"
    /\ self = 0
    /\ relative_plans_to_import = <<>>
    /\ i = 0
    /\ ret = NoCall

Init ==
    /\ plan_stubs_to_import \in TablesOver(StubEntries, MaxEntries)
    /\ plans_to_import \in TablesOver(PlanEntries, MaxEntries)
    /\ Len(plan_stubs_to_import) + Len(plans_to_import) <= MaxEntries
    /\ plan_stubs = PlainModule(StubNames)
    /\ plans = PlainModule(PlanNames)
    /\ Start

\* the shipped tables against modules that have every configured name, or
\* every name but one
AllBut(names) == {names} \cup {names \ {n} : n \in names}
ShippedStubNames == {_plan_stubs_to_import[n].plan :
                        n \in 1..Len(_plan_stubs_to_import)}
ShippedPlanNames == {_plans_to_import[n].plan : n \in 1..Len(_plans_to_import)}

InitShipped ==
    /\ plan_stubs_to_import = _plan_stubs_to_import
    /\ plans_to_import = _plans_to_import
    /\ plan_stubs \in {PlainModule(names) : names \in AllBut(ShippedStubNames)}
    /\ plans \in {PlainModule(names) : names \in AllBut(ShippedPlanNames)}
    /\ Start

\* docstrings whose summary is on the first, the second or the third line,
\* and no docstring
Docs ==
    { [none |-> FALSE, text |-> <<"R","u","n"," ","i","t",".","\n"," "," "," "," ","M","o","r","e",".","\n">>],
      [none |-> FALSE, text |-> <<"\n"," "," "," "," ","R","u","n"," ","i","t",".","\n","\n"," "," "," "," ","M","o","r","e",".","\n">>],
      [none |-> FALSE, text |-> <<"\n","\n"," "," "," "," ","R","u","n"," ","i","t",".","\n">>],
      [none |-> TRUE, text |-> <<>>] }

\* a function object: its docstring, and whether its __dict__ holds anything
\* (functools.wraps leaves __wrapped__ there)
Functions == [doc : Docs, attrs : BOOLEAN]

InitDisplay ==
    /\ plan_stubs_to_import = _plan_stubs_to_import
    /\ plans_to_import = <<Entry(<<"c","o","u","n","t">>, <<<<"c","o","u","n","t">>>>)>>
    /\ plan_stubs \in [ShippedStubNames -> Functions]
    /\ plans \in [{<<"c","o","u","n","t">>} -> Functions]
    /\ Start

Next ==
    \/ \E name \in Names : Call(name)
    \/ StubStep
    \/ StubsDone
    \/ PlanStep
    \/ PlansDone
    \/ Relative
    \/ \E o \in 1..Len(heap) : StrCall(o)
    \/ \E o \in 1..Len(heap) : DirCall(o)

Spec == Init /\ [][Next]_vars

SpecShipped == InitShipped /\ [][Next]_vars

SpecDisplay == InitDisplay /\ [][Next]_vars

(***************************************************************************)
(* What the properties are stated in.                                      *)
(***************************************************************************)
\* every table entry, in processing order: plan stubs, then plans
Processing ==
    [n \in 1..(Len(plan_stubs_to_import) + Len(plans_to_import)) |->
        IF n <= Len(plan_stubs_to_import)
        THEN [mod |-> "plan_stubs", plan |-> plan_stubs_to_import[n].plan,
              aliases |-> plan_stubs_to_import[n].aliases]
        ELSE LET e == plans_to_import[n - Len(plan_stubs_to_import)]
             IN  [mod |-> "plans", plan |-> e.plan, aliases |-> e.aliases]]

\* an entry is flagged relative-motion: its canonical name starts with
\* 'rel_', or it is the plan stub 'mvr'
Flagged(e) ==
    \/ StartsWith(e.plan, <<"r","e","l","_">>)
    \/ e.mod = "plan_stubs" /\ e.plan = <<"m","v","r">>

\* the source module's function of an entry
Fn(e) == FuncV(e.mod, e.plan)

FirstAlias(e) == e.aliases[1]

\* the first alias with everything up to its first underscore removed
Stripped(e) ==
    LET at == CHOOSE at \in 1..Len(FirstAlias(e)) :
                  /\ FirstAlias(e)[at] = "_"
                  /\ \A before \in 1..(at - 1) : FirstAlias(e)[before] # "_"
    IN  SubSeq(FirstAlias(e), at + 1, Len(FirstAlias(e)))

\* the configured name is not in its source module
Absent(e) == e.plan \notin DOMAIN (IF e.mod = "plans" THEN plans ELSE plan_stubs)

ParentDict(k) == heap[calls[k].self].dict
ChildDict(k) == heap[ChildOf(calls[k].self)].dict
Range(seq) == {seq[j] : j \in 1..Len(seq)}
NoRepeat(seq) == \A a, b \in 1..Len(seq) : a # b => seq[a] # seq[b]

(***************************************************************************)
(* C1                                                                      *)
(***************************************************************************)
\* C1 as stated: after construction every entry's first alias is an
\* attribute of the namespace bound to the entry's source function, and no
\* other alias of the entry is an attribute.
C1_EveryFirstAliasBound ==
    \A k \in Returned : \A n \in DOMAIN Processing :
        LET e == Processing[n]
        IN  /\ DictHas(ParentDict(k), FirstAlias(e))
            /\ DictGet(ParentDict(k), FirstAlias(e)) = Fn(e)
            /\ \A j \in 2..Len(e.aliases) :
                  e.aliases[j] # FirstAlias(e)
                      => ~DictHas(ParentDict(k), e.aliases[j])

\* C1 amended: after construction every entry that is not flagged relative
\* has its first alias bound on the parent to its source function, unless
\* that alias is 'relative' or a later entry that is not flagged relative has
\* the same first alias; a function is bound on the parent only under the
\* first alias of its entry, a flagged entry's function is not bound on the
\* parent, and every function on the parent comes from an entry.
C1_FirstAliasBoundUnlessRelative ==
    \A k \in Returned :
        /\ \A n \in DOMAIN Processing :
              LET e == Processing[n]
              IN  /\ ( /\ ~Flagged(e)
                       /\ FirstAlias(e) # str_relative
                       /\ ~\E m \in DOMAIN Processing :
                              /\ m > n
                              /\ ~Flagged(Processing[m])
                              /\ FirstAlias(Processing[m]) = FirstAlias(e) )
                      => /\ DictHas(ParentDict(k), FirstAlias(e))
                         /\ DictGet(ParentDict(k), FirstAlias(e)) = Fn(e)
                  /\ \A j \in 1..Len(ParentDict(k)) :
                        ParentDict(k)[j].val = Fn(e)
                            => /\ ~Flagged(e)
                               /\ ParentDict(k)[j].key = FirstAlias(e)
        /\ \A j \in 1..Len(ParentDict(k)) :
              ParentDict(k)[j].val.t = "func"
                  => \E n \in DOMAIN Processing :
                        Fn(Processing[n]) = ParentDict(k)[j].val

\* a construction returned whose tables hold an entry with two aliases bound
\* under the first, and a flagged entry
C1_Witness ==
    \E k \in Returned : \E n, m \in DOMAIN Processing :
        /\ ~Flagged(Processing[n])
        /\ Len(Processing[n].aliases) > 1
        /\ DictHas(ParentDict(k), FirstAlias(Processing[n]))
        /\ DictGet(ParentDict(k), FirstAlias(Processing[n])) = Fn(Processing[n])
        /\ Flagged(Processing[m])

Operations(d) ==
    {<<d[j].key, d[j].val.mod, d[j].val.s>> :
        j \in {j \in 1..Len(d) : d[j].val.t = "func"}}

\* C3: built from the shipped tables, the parent's operations are exactly
\* move (plan stub mv), count, scan, grid_scan, list_scan, list_grid_scan,
\* log_scan, spiral, spiral_fermat, spiral_square, and the child's are
\* exactly move (plan stub mvr) and scan .. spiral_square bound to the rel_
\* plan of each.
C3_ShippedNamespace ==
    \A k \in Returned :
        /\ Operations(ParentDict(k)) =
             { <<<<"m","o","v","e">>, "plan_stubs", <<"m","v">>>>,
               <<<<"c","o","u","n","t">>, "plans", <<"c","o","u","n","t">>>>,
               <<<<"s","c","a","n">>, "plans", <<"s","c","a","n">>>>,
               <<<<"g","r","i","d","_","s","c","a","n">>, "plans", <<"g","r","i","d","_","s","c","a","n">>>>,
               <<<<"l","i","s","t","_","s","c","a","n">>, "plans", <<"l","i","s","t","_","s","c","a","n">>>>,
               <<<<"l","i","s","t","_","g","r","i","d","_","s","c","a","n">>, "plans", <<"l","i","s","t","_","g","r","i","d","_","s","c","a","n">>>>,
               <<<<"l","o","g","_","s","c","a","n">>, "plans", <<"l","o","g","_","s","c","a","n">>>>,
               <<<<"s","p","i","r","a","l">>, "plans", <<"s","p","i","r","a","l">>>>,
               <<<<"s","p","i","r","a","l","_","f","e","r","m","a","t">>, "plans", <<"s","p","i","r","a","l","_","f","e","r","m","a","t">>>>,
               <<<<"s","p","i","r","a","l","_","s","q","u","a","r","e">>, "plans", <<"s","p","i","r","a","l","_","s","q","u","a","r","e">>>> }
        /\ Operations(ChildDict(k)) =
             { <<<<"m","o","v","e">>, "plan_stubs", <<"m","v","r">>>>,
               <<<<"s","c","a","n">>, "plans", <<"r","e","l","_","s","c","a","n">>>>,
               <<<<"g","r","i","d","_","s","c","a","n">>, "plans", <<"r","e","l","_","g","r","i","d","_","s","c","a","n">>>>,
               <<<<"l","i","s","t","_","s","c","a","n">>, "plans", <<"r","e","l","_","l","i","s","t","_","s","c","a","n">>>>,
               <<<<"l","i","s","t","_","g","r","i","d","_","s","c","a","n">>, "plans", <<"r","e","l","_","l","i","s","t","_","g","r","i","d","_","s","c","a","n">>>>,
               <<<<"l","o","g","_","s","c","a","n">>, "plans", <<"r","e","l","_","l","o","g","_","s","c","a","n">>>>,
               <<<<"s","p","i","r","a","l">>, "plans", <<"r","e","l","_","s","p","i","r","a","l">>>>,
               <<<<"s","p","i","r","a","l","_","f","e","r","m","a","t">>, "plans", <<"r","e","l","_","s","p","i","r","a","l","_","f","e","r","m","a","t">>>>,
               <<<<"s","p","i","r","a","l","_","s","q","u","a","r","e">>, "plans", <<"r","e","l","_","s","p","i","r","a","l","_","s","q","u","a","r","e">>>> }
        /\ DictKeys(ParentDict(k)) =
             <<str_name>>
             \o [j \in 1..Cardinality(Operations(ParentDict(k))) |->
                    ParentDict(k)[j + 1].key]
             \o <<str_relative>>

\* the shipped tables were built into a namespace, both plan stubs bound
C3_Witness ==
    \E k \in Returned :
        /\ plans_to_import = _plans_to_import
        /\ plan_stubs_to_import = _plan_stubs_to_import
        /\ DictHas(ParentDict(k), <<"m","o","v","e">>)
        /\ DictHas(ChildDict(k), <<"m","o","v","e">>)

(***************************************************************************)
(* C4                                                                      *)
(***************************************************************************)
\* what __dir__ may not list
Bookkeeping(o) ==
    IF heap[o].cls = "PlanCollector" THEN {str_name} ELSE {str_name, str_parent}

\* the names the tables expose on an instance
ExposedNames(o) ==
    IF heap[o].cls = "PlanCollector"
    THEN {FirstAlias(Processing[n]) :
            n \in {n \in DOMAIN Processing : ~Flagged(Processing[n])}}
         \cup {str_relative}
    ELSE {Stripped(Processing[n]) :
            n \in {n \in DOMAIN Processing : Flagged(Processing[n])}}

\* C4 as stated: what __dir__ returned holds no bookkeeping field, and every
\* other instance attribute once: on the parent every directly bound alias
\* and 'relative', on the child every stripped relative alias.
C4_DirListsEveryOperation ==
    ret.method = "__dir__" =>
        /\ Range(ret.result.out) \cap Bookkeeping(ret.obj) = {}
        /\ NoRepeat(ret.result.out)
        /\ Range(ret.result.out) =
             Range(DictKeys(heap[ret.obj].dict)) \ Bookkeeping(ret.obj)
        /\ Range(ret.result.out) = ExposedNames(ret.obj)

\* C4 amended: what __dir__ returned holds no bookkeeping field, and every
\* other instance attribute once: on the parent every directly bound alias
\* but 'name', and 'relative'; on the child every stripped relative alias
\* but 'name' and 'parent'.
C4_DirListsAttributes ==
    ret.method = "__dir__" =>
        /\ Range(ret.result.out) \cap Bookkeeping(ret.obj) = {}
        /\ NoRepeat(ret.result.out)
        /\ Range(ret.result.out) =
             Range(DictKeys(heap[ret.obj].dict)) \ Bookkeeping(ret.obj)
        /\ Range(ret.result.out) =
             ExposedNames(ret.obj) \ Bookkeeping(ret.obj)

\* __dir__ was called on a child that holds operations
C4_Witness ==
    /\ ret.method = "__dir__"
    /\ heap[ret.obj].cls = "PlanCollectorSub"
    /\ ret.result.out # <<>>

(***************************************************************************)
(* C5                                                                      *)
(***************************************************************************)
\* the child's back pointer
ParentOf(c) == DictGet(heap[c].dict, str_parent)

\* two __dict__s hold the same names in the same order, and wherever one
\* holds a function the other holds the same function
SameBindings(d1, d2) ==
    /\ DictKeys(d1) = DictKeys(d2)
    /\ \A j \in 1..Len(d1) :
          (d1[j].val.t = "func" \/ d2[j].val.t = "func")
              => d1[j].val = d2[j].val

\* C5: two constructions from the same tables give distinct parents and
\* distinct children, each child pointing back at its own parent, with the
\* same functions under the same names on both parents and on both
\* children; and no step changes an instance a caller already holds.
C5_IndependentObjects ==
    /\ [](\A a, b \in Returned :
            a # b =>
              /\ calls[a].self # calls[b].self
              /\ ChildOf(calls[a].self) # ChildOf(calls[b].self)
              /\ {calls[a].self, calls[b].self}
                   \cap {ChildOf(calls[a].self), ChildOf(calls[b].self)} = {}
              /\ ParentOf(ChildOf(calls[a].self)) = ObjV(calls[a].self)
              /\ ParentOf(ChildOf(calls[b].self)) = ObjV(calls[b].self)
              /\ SameBindings(ParentDict(a), ParentDict(b))
              /\ SameBindings(ChildDict(a), ChildDict(b)))
    /\ [][\A o \in Reachable : heap'[o] = heap[o]]_vars

\* two constructions returned, under different names, with operations on
\* the parent and on the child
C5_Witness ==
    \E a, b \in Returned :
        /\ a # b
        /\ calls[a].name # calls[b].name
        /\ \E j \in 1..Len(ParentDict(a)) : ParentDict(a)[j].val.t = "func"
        /\ \E j \in 1..Len(ChildDict(a)) : ChildDict(a)[j].val.t = "func"

(***************************************************************************)
(* C6, C7                                                                  *)
(***************************************************************************)
\* the places, in processing order, of the entries whose name is absent
AbsentPlaces == {n \in DOMAIN Processing : Absent(Processing[n])}

\* where in processing order a construction raised
RaisedAt(k) ==
    IF calls[k].phase = "plan_stubs" THEN calls[k].index
    ELSE Len(plan_stubs_to_import) + calls[k].index

\* C6 as stated: when a configured name is absent, a construction that has
\* ended raised an attribute-resolution failure at the first such entry, no
\* entry from there on is bound, there is no `relative` child, and the
\* caller holds no instance of it.
C6_FailsAtFirstAbsentName ==
    \A k \in 1..Len(calls) :
        (calls[k].status # "running" /\ AbsentPlaces # {}) =>
            /\ calls[k].status = "AttributeError"
            /\ \A n \in AbsentPlaces : RaisedAt(k) <= n
            /\ RaisedAt(k) \in AbsentPlaces
            /\ \A j \in 1..Len(ParentDict(k)) : \A n \in DOMAIN Processing :
                  ParentDict(k)[j].val = Fn(Processing[n]) => n < RaisedAt(k)
            /\ ~DictHas(ParentDict(k), str_relative)
            /\ \A o \in 1..Len(heap) : heap[o].cls # "PlanCollectorSub"
            /\ calls[k].self \notin Reachable

\* C7 as stated: a construction that has ended failed exactly when some
\* configured name is absent from its source module.
C7_FailsOnlyOnAbsentName ==
    \A k \in 1..Len(calls) :
        calls[k].status # "running" =>
            (calls[k].status # "returned" <=> AbsentPlaces # {})

(***************************************************************************)
(* C8                                                                      *)
(***************************************************************************)
\* C8: a __str__ or __dir__ call changes no instance, no table and no
\* module, and returns what the same call returned just before.
C8_ReadsChangeNothing ==
    [][(pc = "idle" /\ pc' = "idle") =>
          /\ heap' = heap
          /\ calls' = calls
          /\ inputs' = inputs
          /\ (ret.obj = ret'.obj /\ ret.method = ret'.method)
                => ret'.result = ret.result]_vars

\* the first instance was read after the second construction returned
C8_Witness ==
    /\ Cardinality(Returned) = 2
    /\ ret.obj = calls[1].self
    /\ ret.method = "__str__"

(***************************************************************************)
(* C9                                                                      *)
(***************************************************************************)
\* the first line of a docstring that holds more than whitespace, stripped
FirstNonEmptyLine(text) ==
    LET lines == Split(text, <<"\n">>)
        full == {j \in 1..Len(lines) : Strip(lines[j]) # <<>>}
    IN  IF full = {} THEN <<>>
        ELSE Strip(lines[CHOOSE j \in full : \A other \in full : j <= other])

\* how often `line` is a line of `text`
Occurrences(text, line) ==
    LET lines == Split(text, <<"\n">>)
    IN  Cardinality({j \in 1..Len(lines) : lines[j] = line})

\* the functions bound on an instance
FunctionsOn(o) ==
    {j \in 1..Len(heap[o].dict) : heap[o].dict[j].val.t = "func"}

\* every function bound on the instance, and on its child, has a docstring
Documented(o) ==
    /\ \A j \in FunctionsOn(o) : ~DocOf(heap[o].dict[j].val).none
    /\ heap[o].cls = "PlanCollector" =>
          \A j \in FunctionsOn(ChildOf(o)) :
              ~DocOf(heap[ChildOf(o)].dict[j].val).none

\* the line the claim gives an operation, after `indent`
OperationLine(indent, item) ==
    indent \o item.key \o <<":"," "," "," "," ">>
        \o FirstNonEmptyLine(DocOf(item.val).text)

\* C9 as stated: when every bound function has a docstring, __str__ returns
\* a text with one line '<alias>:    <first non-empty docstring line>' for
\* every operation of the instance; the parent's text holds the child as one
\* block under a line 'relative:', the child's operations one level deeper;
\* and no line is for 'name' or 'parent'.
C9_StrListsEveryOperation ==
    (ret.method = "__str__" /\ Documented(ret.obj)) =>
        /\ ret.result.err = "none"
        /\ \A j \in FunctionsOn(ret.obj) :
              Occurrences(ret.result.out,
                          OperationLine(<<" "," "," "," ">>, heap[ret.obj].dict[j])) = 1
        /\ heap[ret.obj].cls = "PlanCollector" =>
              /\ Occurrences(ret.result.out, <<" "," "," "," ","r","e","l","a","t","i","v","e",":">>) = 1
              /\ \A j \in FunctionsOn(ChildOf(ret.obj)) :
                    Occurrences(ret.result.out,
                                OperationLine(<<" "," "," "," "," "," "," "," ">>,
                                    heap[ChildOf(ret.obj)].dict[j])) = 1
        /\ \A n \in 1..Len(Split(ret.result.out, <<"\n">>)) :
              LET line == Strip(Split(ret.result.out, <<"\n">>)[n])
              IN  ~StartsWith(line, <<"n","a","m","e",":">>) /\ ~StartsWith(line, <<"p","a","r","e","n","t",":">>)

(***************************************************************************)
(* C10                                                                     *)
(***************************************************************************)
RECURSIVE FirstOccurrences(_)
\* a sequence without the repeats of what came earlier in it
FirstOccurrences(seq) ==
    IF seq = <<>> THEN <<>>
    ELSE LET front == FirstOccurrences(SubSeq(seq, 1, Len(seq) - 1))
         IN  IF seq[Len(seq)] \in Range(front) THEN front
             ELSE Append(front, seq[Len(seq)])

\* the __dict__ a sequence of writes leaves when the last write to a name
\* wins and a name keeps the place of its first write
LastWriteWins(writes) ==
    LET names == FirstOccurrences(DictKeys(writes))
    IN  [j \in 1..Len(names) |->
            [key |-> names[j],
             val |-> writes[CHOOSE n \in 1..Len(writes) :
                               /\ writes[n].key = names[j]
                               /\ \A m \in 1..Len(writes) :
                                     writes[m].key = names[j] => m <= n].val]]

\* the entries flagged, or not flagged, relative, in processing order
Entries(flagged) ==
    SelectSeq(Processing, LAMBDA e : Flagged(e) = flagged)

\* the writes to the parent, in the claimed order: name, every entry not
\* flagged relative, the child
ParentWrites(k) ==
    <<[key |-> str_name, val |-> StrV(calls[k].name)]>>
    \o [n \in 1..Len(Entries(FALSE)) |->
            [key |-> FirstAlias(Entries(FALSE)[n]),
             val |-> Fn(Entries(FALSE)[n])]]
    \o <<[key |-> str_relative, val |-> ObjV(ChildOf(calls[k].self))]>>

\* the writes to the child, in the claimed order: every flagged entry under
\* its stripped alias, then name ('<parent.name>_relative') and parent
ChildWrites(k) ==
    [n \in 1..Len(Entries(TRUE)) |->
        [key |-> Stripped(Entries(TRUE)[n]), val |-> Fn(Entries(TRUE)[n])]]
    \o <<[key |-> str_name,
          val |-> StrV(Format(DictGet(ParentDict(k), str_name))
                       \o <<"_","r","e","l","a","t","i","v","e">>)],
         [key |-> str_parent, val |-> ObjV(calls[k].self)]>>

\* C10: the parent and the child a construction returns are what the writes
\* in the fixed order leave when the last write to a name wins: a later
\* entry displaces an earlier one of the same exposed name, `relative` on the
\* parent is the child, and the child's name and parent are the bookkeeping
\* values.
C10_LastWriteWins ==
    \A k \in Returned :
        /\ ParentDict(k) = LastWriteWins(ParentWrites(k))
        /\ ChildDict(k) = LastWriteWins(ChildWrites(k))
        /\ heap[ChildOf(calls[k].self)].cls = "PlanCollectorSub"
        /\ DictGet(ParentDict(k), str_relative) = ObjV(ChildOf(calls[k].self))
        /\ DictGet(ChildDict(k), str_parent) = ObjV(calls[k].self)
        /\ DictGet(ChildDict(k), str_name).t = "str"

\* a construction returned in which a plan displaced a plan stub of the same
\* exposed name
C10_Witness ==
    \E k \in Returned : \E n, m \in DOMAIN Processing :
        /\ n < m
        /\ Processing[n].mod = "plan_stubs"
        /\ Processing[m].mod = "plans"
        /\ Flagged(Processing[n]) = Flagged(Processing[m])
        /\ IF Flagged(Processing[n])
           THEN /\ Stripped(Processing[n]) = Stripped(Processing[m])
                /\ DictGet(ChildDict(k), Stripped(Processing[m]))
                     = Fn(Processing[m])
           ELSE /\ FirstAlias(Processing[n]) = FirstAlias(Processing[m])
                /\ DictGet(ParentDict(k), FirstAlias(Processing[m]))
                     = Fn(Processing[m])

====
